---- MODULE Spec2Model ----
(***************************************************************************)
(* ddns-agent (src/main.rs): startup (environment, zone lookup, record     *)
(* lookup) followed by the IP sync loop {get_public_ip, compare with       *)
(* last_ip, update_dns, sleep}.                                            *)
(*                                                                         *)
(* Rust Strings are sequences of one-character strings, so that            *)
(* Ipv4Addr::to_string, str::split and str::parse are computed and not     *)
(* assumed.  Opaque provider IDs are TLA+ strings.  `log` is a history of  *)
(* the calls the process has issued, in order; where `history` is FALSE it *)
(* holds the most recent call only, so that unbounded runs stay finite.    *)
(* `record_content` is the content of the A record on the provider side.   *)
(***************************************************************************)
EXTENDS Integers, Sequences, FiniteSets, TLC

VARIABLES pc, env, duration_sleep_ms, cf_token, dns_name, zone_id, record_id,
          last_ip, ip_str, error, log, history, record_content

vars == <<pc, env, duration_sleep_ms, cf_token, dns_name, zone_id, record_id,
          last_ip, ip_str, error, log, history, record_content>>

(* ---------------------------- bounds ----------------------------------- *)

\* number of distinct public addresses the discovery service can report
MaxAddr == 2
\* longest result list a provider lookup response carries
MaxResult == 2
\* number of calls (lookups, queries, updates, sleeps) recorded in a run
MaxLog == 9
\* longest DNS name handed to the resolver
MaxName == 5

(* ---------------------------- Rust values ------------------------------ *)

\* Option<T>: None, and Some(v) is v itself (v is never the empty tuple)
None == <<>>

\* Result<T, E>
Ok(v) == [tag |-> "Ok", val |-> v]
Err(e) == [tag |-> "Err", val |-> e]

\* an environment variable: unset, or set to a string
Unset == [set |-> FALSE, val |-> <<>>]
Set(s) == [set |-> TRUE, val |-> s]

Digits == <<"0", "1", "2", "3", "4", "5", "6", "7", "8", "9">>

RECURSIVE DecStr(_)
\* decimal rendering of a natural number, no leading zeros
DecStr(n) == IF n < 10 THEN <<Digits[n + 1]>>
             ELSE DecStr(n \div 10) \o <<Digits[(n % 10) + 1]>>

\* Ipv4Addr::to_string: the four octets in decimal joined by '.'
to_string(ip) == DecStr(ip[1]) \o <<".">> \o DecStr(ip[2]) \o <<".">>
                 \o DecStr(ip[3]) \o <<".">> \o DecStr(ip[4])

RECURSIVE split(_, _)
\* str::split(c): the pieces between the separators (always at least one)
split(s, c) ==
    IF \A i \in 1..Len(s) : s[i] # c THEN <<s>>
    ELSE LET k == CHOOSE i \in 1..Len(s) :
                      s[i] = c /\ \A j \in 1..(i - 1) : s[j] # c
         IN <<SubSeq(s, 1, k - 1)>> \o split(SubSeq(s, k + 1, Len(s)), c)

RECURSIVE join(_, _)
\* [&str]::join(sep)
join(parts, sep) ==
    IF Len(parts) = 0 THEN <<>>
    ELSE IF Len(parts) = 1 THEN parts[1]
    ELSE parts[1] \o sep \o join(Tail(parts), sep)

\* extract_root_domain keeping the first two labels
extract_root_domain_first_two(name) ==
    LET parts == split(name, ".")
    IN IF Len(parts) >= 2
       THEN join(SubSeq(parts, 1, 2), <<".">>)
       ELSE name

extract_root_domain(name) ==
    LET parts == split(name, ".")
    IN IF Len(parts) >= 2
       THEN join(SubSeq(parts, Len(parts) - 1, Len(parts)), <<".">>)
       ELSE name

DigitVal(c) == CHOOSE d \in 0..9 : Digits[d + 1] = c

IsDigit(c) == \E d \in 0..9 : Digits[d + 1] = c

RECURSIVE StripZeros(_)
StripZeros(s) == IF Len(s) > 1 /\ s[1] = "0" THEN StripZeros(Tail(s)) ELSE s

RECURSIVE DigitsLeq(_, _)
\* lexicographic <= on two digit strings of the same length
DigitsLeq(a, b) ==
    IF Len(a) = 0 THEN TRUE
    ELSE IF DigitVal(a[1]) < DigitVal(b[1]) THEN TRUE
    ELSE IF DigitVal(a[1]) > DigitVal(b[1]) THEN FALSE
    ELSE DigitsLeq(Tail(a), Tail(b))

\* u64::MAX = 18446744073709551615
U64MaxDigits == <<"1","8","4","4","6","7","4","4","0","7","3","7","0","9",
                  "5","5","1","6","1","5">>

RECURSIVE DigitsValue(_)
DigitsValue(s) == IF Len(s) = 0 THEN 0
                  ELSE DigitsValue(SubSeq(s, 1, Len(s) - 1)) * 10
                       + DigitVal(s[Len(s)])

\* str::parse::<u64>: an optional '+', then one or more digits, no overflow
parse_u64(s) ==
    LET body == IF Len(s) > 0 /\ s[1] = "+" THEN Tail(s) ELSE s
        sig  == StripZeros(body)
    IN IF Len(body) = 0 THEN Err("Empty")
       ELSE IF \E i \in 1..Len(body) : ~IsDigit(body[i]) THEN Err("InvalidDigit")
       ELSE IF Len(sig) > Len(U64MaxDigits)
               \/ (Len(sig) = Len(U64MaxDigits) /\ ~DigitsLeq(sig, U64MaxDigits))
            THEN Err("PosOverflow")
       ELSE Ok(DigitsValue(sig))

DefaultSleep == <<"5", "0", "0", "0">>

\* the same with unwrap_or_default() on the parse result
read_duration_sleep_ms_or_default(v) ==
    LET raw == IF v.set THEN v.val ELSE DefaultSleep
        r   == parse_u64(raw)
    IN IF r.tag = "Ok" THEN r.val ELSE 0

\* env::var("DURATION_SLEEP_MS").unwrap_or_else(|_| "5000").parse().unwrap_or(5000)
read_duration_sleep_ms(v) ==
    LET raw == IF v.set THEN v.val ELSE DefaultSleep
        r   == parse_u64(raw)
    IN IF r.tag = "Ok" THEN r.val ELSE 5000

(* ---------------------------- inputs ----------------------------------- *)

Tokens == {Unset, Set(<<"t">>)}

DnsNames == {Unset, Set(<<"f", ".", "e", ".", "c">>), Set(<<"h">>)}

SleepVals == {Unset, Set(<<"0">>), Set(<<"3", "0">>), Set(<<"-", "1">>)}

ZoneIds == {"Z1", "Z2"}

RecordIds == {"R1", "R2"}

Addrs == {<<192, 0, 2, k>> : k \in 1..MaxAddr}

\* sequences over S of length at most n
SeqsUpTo(S, n) == UNION {[1..k -> S] : k \in 0..n}

\* what a provider call can come back with: the send fails, the body does
\* not deserialize, or a JSON envelope {success, result}
NoResp == [kind |-> "none", success |-> FALSE, result |-> <<>>]
TransportError == [kind |-> "transport", success |-> FALSE, result |-> <<>>]
ProtocolError == [kind |-> "protocol", success |-> FALSE, result |-> <<>>]
Json(s, r) == [kind |-> "json", success |-> s, result |-> r]

\* the result lists a lookup response can carry: at most MaxResult entries,
\* neighbouring entries being different objects
ResultLists(Ids) ==
    {r \in SeqsUpTo(Ids, MaxResult) : \A i \in 1..(Len(r) - 1) : r[i] # r[i + 1]}

LookupResponses(Ids) ==
    {TransportError, ProtocolError}
    \cup {Json(s, r) : s \in BOOLEAN, r \in ResultLists(Ids)}

UpdateResponses ==
    {TransportError, ProtocolError} \cup {Json(s, <<>>) : s \in BOOLEAN}

(* ---------------------------- call history ----------------------------- *)

NoEvent == [op |-> "", auth |-> <<>>, zone |-> "", record |-> "",
            name |-> <<>>, type |-> "", content |-> <<>>, ttl |-> 0,
            proxied |-> TRUE, ms |-> 0, addr |-> None, resp |-> NoResp,
            ret |-> ""]

\* the history after call e: the whole run, or the most recent call only
Record(e) == IF history THEN Append(log, e) ELSE <<e>>

\* a bounded history is full after MaxLog calls
CanRecord == ~history \/ Len(log) < MaxLog

(* ---------------------------- provider client -------------------------- *)

\* the zone lookup queried with the full DNS name
zone_query_full_name(name) == name

\* GET /zones?name={domain}
zone_query(name) == extract_root_domain(name)

\* GET /zones/{zone_id}/dns_records?type=A&name={dns_name}
record_query(zone, name) == [zone |-> zone, type |-> "A", name |-> name]

\* get_zone_id without the `!data.success` test
get_zone_id_ignores_success(resp, name) ==
    IF resp.kind = "transport" THEN Err("Failed to fetch zones from Cloudflare")
    ELSE IF resp.kind = "protocol" THEN Err("Failed to parse zones response")
    ELSE IF resp.result = <<>> THEN Err("Zone not found for domain")
    ELSE Ok(resp.result[1])

get_zone_id(resp, name) ==
    IF resp.kind = "transport" THEN Err("Failed to fetch zones from Cloudflare")
    ELSE IF resp.kind = "protocol" THEN Err("Failed to parse zones response")
    ELSE IF ~resp.success \/ resp.result = <<>> THEN Err("Zone not found for domain")
    ELSE Ok(resp.result[1])

\* get_record_id taking the last element of the result list
get_record_id_last(resp, zone, name) ==
    IF resp.kind = "transport" THEN Err("Failed to fetch DNS records from Cloudflare")
    ELSE IF resp.kind = "protocol" THEN Err("Failed to parse DNS records response")
    ELSE IF ~resp.success \/ resp.result = <<>> THEN Err("DNS record not found")
    ELSE Ok(resp.result[Len(resp.result)])

get_record_id(resp, zone, name) ==
    IF resp.kind = "transport" THEN Err("Failed to fetch DNS records from Cloudflare")
    ELSE IF resp.kind = "protocol" THEN Err("Failed to parse DNS records response")
    ELSE IF ~resp.success \/ resp.result = <<>> THEN Err("DNS record not found")
    ELSE Ok(resp.result[1])

\* get_public_ip with unwrap_or_default() on the discovered address
get_public_ip_or_default(public_ip) ==
    Ok(IF public_ip = None THEN <<0, 0, 0, 0>> ELSE public_ip)

get_public_ip(public_ip) == Ok(public_ip)

\* update_url with the two IDs in the wrong order
update_url_swapped(zone, record) == [zone |-> record, record |-> zone]

update_url(zone, record) == [zone |-> zone, record |-> record]

\* update_body with proxying left on
update_body_proxied(ip, name) ==
    [type |-> "A", name |-> name, content |-> ip, ttl |-> 1, proxied |-> TRUE]

update_body(ip, name) ==
    [type |-> "A", name |-> name, content |-> ip, ttl |-> 1, proxied |-> FALSE]

\* the provider side of the PUT: the record takes the new content exactly
\* when the provider answers success=true
provider_put(resp, content, old) ==
    IF resp.kind = "json" /\ resp.success THEN content ELSE old

\* update_dns that swallows transport and parse errors
update_dns_swallows_errors(resp) == Ok("unit")

update_dns(resp) ==
    IF resp.kind = "transport" THEN Err("send")
    ELSE IF resp.kind = "protocol" THEN Err("json")
    ELSE Ok("unit")

(* ---------------------------- main ------------------------------------- *)

Init ==
    /\ pc = "init"
    /\ env \in [CF_API_TOKEN : Tokens, DNS_NAME : DnsNames,
                DURATION_SLEEP_MS : SleepVals]
    /\ duration_sleep_ms = 0
    /\ cf_token = <<>>
    /\ dns_name = <<>>
    /\ zone_id = ""
    /\ record_id = ""
    /\ last_ip = <<>>
    /\ ip_str = <<>>
    /\ error = ""
    /\ log = <<>>
    /\ history = TRUE
    /\ record_content = <<>>

\* env::var(NAME) with unwrap_or_default() in place of context(..)?
read_required_or_default(v, msg) == Ok(v.val)

\* env::var(NAME).context("NAME is required")
read_required(v, msg) == IF v.set THEN Ok(v.val) ELSE Err(msg)

\* main, up to the first network call: last_ip, the poll interval and the
\* two required variables
ReadConfig ==
    /\ pc = "init"
    /\ last_ip' = <<>>
    /\ duration_sleep_ms' = read_duration_sleep_ms(env.DURATION_SLEEP_MS)
    /\ LET t == read_required(env.CF_API_TOKEN, "CF_API_TOKEN is required")
           n == read_required(env.DNS_NAME, "DNS_NAME is required")
       IN IF t.tag = "Err"
          THEN /\ pc' = "exited"
               /\ error' = t.val
               /\ UNCHANGED <<cf_token, dns_name>>
          ELSE IF n.tag = "Err"
          THEN /\ pc' = "exited"
               /\ error' = n.val
               /\ cf_token' = t.val
               /\ UNCHANGED dns_name
          ELSE /\ pc' = "zone"
               /\ cf_token' = t.val
               /\ dns_name' = n.val
               /\ UNCHANGED error
    /\ UNCHANGED <<env, zone_id, record_id, ip_str, log, history, record_content>>

\* let zone_id = get_zone_id(&client, &cf_token, &dns_name).await?;
GetZoneId ==
    /\ pc = "zone"
    /\ CanRecord
    /\ \E resp \in LookupResponses(ZoneIds) :
         LET r == get_zone_id(resp, dns_name)
         IN /\ log' = Record([NoEvent EXCEPT
                         !.op = "zone", !.auth = cf_token,
                         !.name = zone_query(dns_name),
                         !.resp = resp,
                         !.ret = IF r.tag = "Ok" THEN r.val ELSE ""])
            /\ IF r.tag = "Ok"
               THEN /\ zone_id' = r.val
                    /\ pc' = "record"
                    /\ UNCHANGED error
               ELSE /\ pc' = "exited"
                    /\ error' = r.val
                    /\ UNCHANGED zone_id
    /\ UNCHANGED <<env, duration_sleep_ms, cf_token, dns_name, record_id,
                   last_ip, ip_str, history, record_content>>

\* let record_id = get_record_id(&client, &cf_token, &zone_id, &dns_name).await?;
GetRecordId ==
    /\ pc = "record"
    /\ CanRecord
    /\ \E resp \in LookupResponses(RecordIds) :
         LET r == get_record_id(resp, zone_id, dns_name)
             q == record_query(zone_id, dns_name)
         IN /\ log' = Record([NoEvent EXCEPT
                         !.op = "record", !.auth = cf_token,
                         !.zone = q.zone, !.type = q.type, !.name = q.name,
                         !.resp = resp,
                         !.ret = IF r.tag = "Ok" THEN r.val ELSE ""])
            /\ IF r.tag = "Ok"
               THEN /\ record_id' = r.val
                    /\ pc' = "loop"
                    /\ UNCHANGED error
               ELSE /\ pc' = "exited"
                    /\ error' = r.val
                    /\ UNCHANGED record_id
    /\ UNCHANGED <<env, duration_sleep_ms, cf_token, dns_name, zone_id,
                   last_ip, ip_str, history, record_content>>

\* the comparison dropped: every discovered address counts as new
ip_changed_always(new, last) == TRUE

\* if ip_str != last_ip
ip_changed(new, last) == new # last

\* the None and Err arms ending in `continue`, which skips the sleep
match_public_ip_continue(res, last) ==
    IF res.tag = "Ok" /\ res.val # None
    THEN [ip_str |-> to_string(res.val),
          pc |-> IF ip_changed(to_string(res.val), last) THEN "update" ELSE "sleep"]
    ELSE [ip_str |-> <<>>, pc |-> "loop"]

\* match get_public_ip().await { Ok(Some(ip)) => .., Ok(None) => .., Err(e) => .. }
\* up to the decision whether update_dns is called
match_public_ip(res, last) ==
    IF res.tag = "Ok" /\ res.val # None
    THEN [ip_str |-> to_string(res.val),
          pc |-> IF ip_changed(to_string(res.val), last) THEN "update" ELSE "sleep"]
    ELSE [ip_str |-> <<>>, pc |-> "sleep"]

GetPublicIp ==
    /\ pc = "loop"
    /\ CanRecord
    /\ \E a \in Addrs \cup {None} :
         LET m == match_public_ip(get_public_ip(a), last_ip)
         IN /\ log' = Record([NoEvent EXCEPT !.op = "public_ip", !.addr = a])
            /\ ip_str' = m.ip_str
            /\ pc' = m.pc
    /\ UNCHANGED <<env, duration_sleep_ms, cf_token, dns_name, zone_id,
                   record_id, last_ip, error, history, record_content>>

\* update_dns(..).await? : the error leaves main
handle_update_propagates(r, new, last) ==
    IF r.tag = "Err" THEN [pc |-> "exited", last_ip |-> last, error |-> r.val]
    ELSE [pc |-> "sleep", last_ip |-> new, error |-> ""]

\* if let Err(e) = update_dns(..).await { eprintln!(..) } else { last_ip = ip_str }
handle_update(r, new, last) ==
    IF r.tag = "Err" THEN [pc |-> "sleep", last_ip |-> last, error |-> ""]
    ELSE [pc |-> "sleep", last_ip |-> new, error |-> ""]

UpdateDns ==
    /\ pc = "update"
    /\ CanRecord
    /\ \E resp \in UpdateResponses :
         LET url  == update_url(zone_id, record_id)
             body == update_body(ip_str, dns_name)
             h    == handle_update(update_dns(resp), ip_str, last_ip)
         IN /\ log' = Record([NoEvent EXCEPT
                         !.op = "update", !.auth = cf_token,
                         !.zone = url.zone, !.record = url.record,
                         !.type = body.type, !.name = body.name,
                         !.content = body.content, !.ttl = body.ttl,
                         !.proxied = body.proxied, !.resp = resp])
            /\ last_ip' = h.last_ip
            /\ pc' = h.pc
            /\ error' = IF h.pc = "exited" THEN h.error ELSE error
            /\ record_content' = provider_put(resp, body.content, record_content)
    /\ UNCHANGED <<env, duration_sleep_ms, cf_token, dns_name, zone_id,
                   record_id, ip_str, history>>

\* sleep(Duration::from_millis(duration_sleep_ms)).await; and back to the top
Sleep ==
    /\ pc = "sleep"
    /\ CanRecord
    /\ log' = Record([NoEvent EXCEPT !.op = "sleep", !.ms = duration_sleep_ms])
    /\ pc' = "loop"
    /\ UNCHANGED <<env, duration_sleep_ms, cf_token, dns_name, zone_id,
                   record_id, last_ip, ip_str, error, history, record_content>>

Next == ReadConfig \/ GetZoneId \/ GetRecordId \/ GetPublicIp \/ UpdateDns \/ Sleep

Spec == Init /\ [][Next]_vars

\* the same program, unbounded: the history holds the most recent call only
LiveInit ==
    /\ pc = "init"
    /\ env \in [CF_API_TOKEN : Tokens, DNS_NAME : DnsNames,
                DURATION_SLEEP_MS : SleepVals]
    /\ duration_sleep_ms = 0
    /\ cf_token = <<>>
    /\ dns_name = <<>>
    /\ zone_id = ""
    /\ record_id = ""
    /\ last_ip = <<>>
    /\ ip_str = <<>>
    /\ error = ""
    /\ log = <<>>
    /\ history = FALSE
    /\ record_content = <<>>

\* the single task is always resumed: every awaited call and every sleep
\* completes, so a step that can be taken is eventually taken
LiveSpec == LiveInit /\ [][Next]_vars /\ WF_vars(Next)

\* the characters of the DNS names handed to the resolver
NameChars == {"a", "b", "."}

Names == SeqsUpTo(NameChars, MaxName)

\* main after the environment was read, with any DNS_NAME of Names
DomainInit ==
    /\ pc = "zone"
    /\ \E n \in Names :
         /\ env = [CF_API_TOKEN |-> Set(<<"t">>), DNS_NAME |-> Set(n),
                   DURATION_SLEEP_MS |-> Unset]
         /\ dns_name = n
    /\ duration_sleep_ms = read_duration_sleep_ms(Unset)
    /\ cf_token = <<"t">>
    /\ zone_id = ""
    /\ record_id = ""
    /\ last_ip = <<>>
    /\ ip_str = <<>>
    /\ error = ""
    /\ log = <<>>
    /\ history = TRUE
    /\ record_content = <<>>

\* the zone lookup, and with it extract_root_domain, on every such name
DomainSpec == DomainInit /\ [][GetZoneId]_vars

(* ---------------------------- properties ------------------------------- *)

Running == {"loop", "update", "sleep"}

\* a lookup response that is a failure: transport error, protocol error,
\* success=false or an empty result list
LookupFailed(resp) == resp.kind # "json" \/ ~resp.success \/ resp.result = <<>>

\* an update response the provider acknowledged with success=true
Acked(resp) == resp.kind = "json" /\ resp.success

\* a well-formed update response with success=false
SoftFailure(resp) == resp.kind = "json" /\ ~resp.success

\* the send failed or the body did not parse
HardFailure(resp) == resp.kind \in {"transport", "protocol"}

\* the most recent call, or the blank event when there is none yet
Last(l) == IF Len(l) = 0 THEN NoEvent ELSE l[Len(l)]

IsUpdate(e) == e.op = "update"

IsQuery(e) == e.op = "public_ip"

Discovers(e, s) == e.op = "public_ip" /\ e.addr # None /\ to_string(e.addr) = s

RECURSIVE LastAckedIp(_)
\* the content of the most recent acknowledged update call, or empty
LastAckedIp(l) ==
    IF Len(l) = 0 THEN <<>>
    ELSE IF IsUpdate(l[Len(l)]) /\ Acked(l[Len(l)].resp) THEN l[Len(l)].content
    ELSE LastAckedIp(SubSeq(l, 1, Len(l) - 1))

\* the step appended one event to the history, and e is that event
Issued(e) == Len(log') = Len(log) + 1 /\ e = Last(log')

\* C1: in every reachable state last_ip is empty when no update call has
\* been acknowledged with success=true, and otherwise is the IP of the most
\* recent acknowledged update call
C1_LastIpIsLastAcked == last_ip = LastAckedIp(log)

\* C2: a step in which an update call gets a well-formed success=false
\* response leaves last_ip as it was
C2_SoftFailureKeepsLastIp ==
    [][\A e \in {Last(log')} :
          (Issued(e) /\ IsUpdate(e) /\ SoftFailure(e.resp)) => last_ip' = last_ip]_vars

\* C3: after an update call for address X failed (hard or soft), the next
\* public-IP query that discovers X is followed by another update call for X
C3_RetryAfterFailure ==
    \A i \in 1..Len(log) : \A j \in (i + 1)..Len(log) :
        ( /\ IsUpdate(log[i]) /\ ~Acked(log[i].resp)
          /\ Discovers(log[j], log[i].content)
          /\ \A k \in (i + 1)..(j - 1) : ~Discovers(log[k], log[i].content) )
        => IF j < Len(log)
           THEN IsUpdate(log[j + 1]) /\ log[j + 1].content = log[i].content
           ELSE pc = "update" /\ ip_str = log[i].content

\* C4: an acknowledged update call sets last_ip to the address it sent, and
\* no other step changes last_ip
C4_OnlyAckChangesLastIp ==
    [][/\ \A e \in {Last(log')} :
              (Issued(e) /\ IsUpdate(e) /\ Acked(e.resp)) => last_ip' = e.content
       /\ last_ip' # last_ip =>
              \E e \in {Last(log')} : Issued(e) /\ IsUpdate(e) /\ Acked(e.resp)]_vars

\* C5: an update call that fails hard leaves last_ip unchanged, does not
\* end the process, and is followed by the sleep and then the next iteration
C5_HardFailureContinues ==
    [][/\ \A e \in {Last(log')} :
              (Issued(e) /\ IsUpdate(e) /\ HardFailure(e.resp))
              => last_ip' = last_ip /\ pc' = "sleep" /\ error' = error
       /\ (Len(log) > 0 /\ IsUpdate(Last(log)) /\ HardFailure(Last(log).resp))
              => pc = "sleep" /\ pc' = "loop" /\ Last(log').op = "sleep"
       /\ (Len(log) > 1 /\ IsUpdate(log[Len(log) - 1])
               /\ HardFailure(log[Len(log) - 1].resp))
              => pc = "loop" /\ IsQuery(Last(log'))]_vars

C5_Witness ==
    /\ Len(log) > 2
    /\ IsUpdate(log[Len(log) - 2]) /\ HardFailure(log[Len(log) - 2].resp)
    /\ log[Len(log) - 1].op = "sleep"
    /\ IsQuery(Last(log))
    /\ last_ip # <<>>
    /\ last_ip # log[Len(log) - 2].content

\* C6: a query that discovers the address held in last_ip is followed by no
\* update call; two consecutive iterations discovering the same address, the
\* first update being acknowledged, issue exactly one update call
C6_NoUpdateWhenInSync ==
    /\ (Len(log) > 0 /\ Discovers(Last(log), last_ip)) => pc = "sleep"
    /\ \A i \in 1..Len(log) :
         ( /\ i + 3 <= Len(log)
           /\ IsQuery(log[i]) /\ log[i].addr # None
           /\ IsUpdate(log[i + 1]) /\ Acked(log[i + 1].resp)
           /\ log[i + 2].op = "sleep"
           /\ IsQuery(log[i + 3]) /\ log[i + 3].addr = log[i].addr )
         => /\ log[i + 1].content = to_string(log[i].addr)
            /\ IF i + 3 < Len(log) THEN log[i + 4].op = "sleep" ELSE pc = "sleep"

C6_Witness ==
    /\ Len(log) > 4
    /\ IsQuery(log[Len(log) - 4]) /\ log[Len(log) - 4].addr # None
    /\ IsUpdate(log[Len(log) - 3]) /\ Acked(log[Len(log) - 3].resp)
    /\ log[Len(log) - 2].op = "sleep"
    /\ IsQuery(log[Len(log) - 1]) /\ log[Len(log) - 1].addr = log[Len(log) - 4].addr
    /\ Last(log).op = "sleep"

\* C7: the zone lookup is the first call and the record lookup the second;
\* a failed lookup ends the process with an error and is the last call of
\* the run, so no public-IP query and no update call follows it
C7_StartupFailureIsFatal ==
    /\ \A i \in 1..Len(log) :
         /\ log[i].op = "zone" => i = 1
         /\ log[i].op = "record" =>
               i = 2 /\ log[1].op = "zone" /\ ~LookupFailed(log[1].resp)
         /\ (log[i].op \in {"zone", "record"} /\ LookupFailed(log[i].resp))
               => pc = "exited" /\ error # "" /\ Len(log) = i
         /\ (IsQuery(log[i]) \/ IsUpdate(log[i])) =>
               /\ i > 2
               /\ log[1].op = "zone" /\ ~LookupFailed(log[1].resp)
               /\ log[2].op = "record" /\ ~LookupFailed(log[2].resp)
    /\ pc \in Running => Len(log) >= 2
    /\ pc = "exited" => \A i \in 1..Len(log) : ~IsQuery(log[i]) /\ ~IsUpdate(log[i])

C7_Witness ==
    /\ pc = "exited"
    /\ Len(log) = 2
    /\ log[1].op = "zone" /\ ~LookupFailed(log[1].resp)
    /\ log[2].op = "record" /\ LookupFailed(log[2].resp)

\* C8: a public-IP query that returns no address (or an error) changes
\* neither last_ip nor anything else but the loop position, which goes to
\* the sleep; the call after such a query is the sleep, never an update
C8_NoAddressNoAction ==
    [][/\ \A e \in {Last(log')} :
              (Issued(e) /\ IsQuery(e) /\ e.addr = None)
              => pc' = "sleep" /\ last_ip' = last_ip
       /\ (Len(log) > 0 /\ IsQuery(Last(log)) /\ Last(log).addr = None)
              => pc = "sleep" /\ Last(log').op = "sleep" /\ last_ip' = last_ip]_vars

C8_Witness ==
    /\ Len(log) > 1
    /\ IsQuery(log[Len(log) - 1]) /\ log[Len(log) - 1].addr = None
    /\ Last(log).op = "sleep"
    /\ last_ip # <<>>

\* C9: no step of a running process leaves the Running state; the query is
\* followed by the update or the sleep, the update by the sleep, and the
\* sleep by the next query, whatever the outcomes were
C9_RunningNeverTerminates ==
    [][(pc \in Running) =>
          ( /\ pc' \in Running
            /\ error' = error
            /\ (pc = "loop" => pc' \in {"update", "sleep"})
            /\ (pc = "update" => pc' = "sleep")
            /\ (pc = "sleep" => pc' = "loop") )]_vars

C9_Witness ==
    /\ pc = "loop"
    /\ \E i \in 1..Len(log) : IsUpdate(log[i]) /\ HardFailure(log[i].resp)
    /\ \E i \in 1..Len(log) : IsQuery(log[i]) /\ log[i].addr = None
    /\ Last(log).op = "sleep"

\* C10: every update call targets the zone ID and record ID the startup
\* lookups returned, the two IDs held by the loop never change, and no
\* lookup is issued after the second call of the run
C10_IdsFixedAtStartup ==
    /\ \A i \in 1..Len(log) :
         /\ log[i].op \in {"zone", "record"} => i <= 2
         /\ IsUpdate(log[i]) =>
               /\ log[1].op = "zone" /\ log[i].zone = log[1].ret
               /\ log[2].op = "record" /\ log[i].record = log[2].ret
    /\ pc \in Running =>
         /\ Len(log) >= 2
         /\ zone_id = log[1].ret /\ zone_id \in ZoneIds
         /\ record_id = log[2].ret /\ record_id \in RecordIds

C10_Witness ==
    \E i \in 1..Len(log) : \E j \in (i + 1)..Len(log) :
        /\ IsUpdate(log[i]) /\ ~Acked(log[i].resp)
        /\ IsUpdate(log[j])

\* C11: a lookup answered success=true with a non-empty result list returns
\* the ID of the first element; answered success=false or with an empty
\* list (success=false with a non-empty list included) it fails not-found,
\* which ends the run
C11_LookupFirstOrNotFound ==
    \A i \in 1..Len(log) :
        (log[i].op \in {"zone", "record"} /\ log[i].resp.kind = "json") =>
            IF log[i].resp.success /\ log[i].resp.result # <<>>
            THEN /\ log[i].ret = log[i].resp.result[1]
                 /\ (i = Len(log) /\ log[i].op = "zone") =>
                        pc = "record" /\ zone_id = log[i].resp.result[1]
                 /\ (i = Len(log) /\ log[i].op = "record") =>
                        pc = "loop" /\ record_id = log[i].resp.result[1]
            ELSE /\ log[i].ret = ""
                 /\ i = Len(log)
                 /\ pc = "exited"
                 /\ error = IF log[i].op = "zone" THEN "Zone not found for domain"
                            ELSE "DNS record not found"

C11_Witness ==
    /\ Len(log) = 2
    /\ log[1].op = "zone" /\ log[1].resp.success /\ Len(log[1].resp.result) = 2
    /\ zone_id = log[1].resp.result[1] /\ zone_id # log[1].resp.result[2]
    /\ log[2].op = "record" /\ log[2].resp.success /\ Len(log[2].resp.result) = 2
    /\ record_id = log[2].resp.result[1] /\ record_id # log[2].resp.result[2]
    /\ pc = "loop"

\* the positions of the dots of a name
Dots(s) == {i \in 1..Len(s) : s[i] = "."}

\* the greatest element of a non-empty set of numbers
Greatest(S) == CHOOSE m \in S : \A k \in S : k <= m

\* what follows the last but one dot of a name (the whole name when it has
\* one dot), and the name itself when it has no dot
LastTwoLabels(s) ==
    IF Dots(s) = {} THEN s
    ELSE LET p == Greatest(Dots(s))
             q == Greatest((Dots(s) \ {p}) \cup {0})
         IN SubSeq(s, q + 1, Len(s))

\* C12: on a name with at least two labels extract_root_domain returns the
\* last two labels joined by '.', and on a name without a dot the name
C12_RootDomainIsLastTwoLabels ==
    \A i \in 1..Len(log) :
        log[i].op = "zone" => log[i].name = LastTwoLabels(dns_name)

C12_Witness ==
    /\ Len(log) = 1
    /\ log[1].op = "zone"
    /\ Cardinality(Dots(dns_name)) = 2
    /\ Len(log[1].name) = 3
    /\ log[1].name[1] # dns_name[1]

\* C13: the first call is the zone lookup for the root domain of DNS_NAME;
\* the second is the record lookup, with the zone ID the zone lookup
\* returned, type A and the full DNS_NAME
C13_StartupLookupArguments ==
    /\ Len(log) >= 1 =>
         /\ log[1].op = "zone"
         /\ log[1].name = LastTwoLabels(env.DNS_NAME.val)
    /\ Len(log) >= 2 =>
         /\ log[2].op = "record"
         /\ log[1].ret \in ZoneIds
         /\ log[2].zone = log[1].ret
         /\ log[2].type = "A"
         /\ log[2].name = env.DNS_NAME.val

C13_Witness ==
    /\ Len(log) = 2
    /\ log[2].op = "record"
    /\ log[1].name # log[2].name
    /\ Len(log[1].resp.result) = 2

\* C14: the poll interval is a positive number of milliseconds whatever
\* DURATION_SLEEP_MS holds, every sleep lasts that long, and it is 5000
\* when DURATION_SLEEP_MS is not set
C14_PollIntervalPositive ==
    /\ pc # "init" =>
         /\ duration_sleep_ms > 0
         /\ ~env.DURATION_SLEEP_MS.set => duration_sleep_ms = 5000
    /\ \A i \in 1..Len(log) :
         log[i].op = "sleep" => log[i].ms > 0 /\ log[i].ms = duration_sleep_ms

\* a value str::parse::<u64> rejects
Unparsable(s) == parse_u64(s).tag = "Err"

\* C19: with DURATION_SLEEP_MS set to a value that is no u64 the
\* environment is read without a failure on its account, and the poll
\* interval, and with it every sleep, is 5000 ms
C19_UnparsableIntervalDefaults ==
    (pc # "init" /\ env.DURATION_SLEEP_MS.set /\ Unparsable(env.DURATION_SLEEP_MS.val)) =>
        /\ duration_sleep_ms = 5000
        /\ (env.CF_API_TOKEN.set /\ env.DNS_NAME.set) =>
               (pc = "exited" => Len(log) > 0)
        /\ pc = "exited" =>
               error \in {"CF_API_TOKEN is required", "DNS_NAME is required",
                          "Failed to fetch zones from Cloudflare",
                          "Failed to parse zones response",
                          "Zone not found for domain",
                          "Failed to fetch DNS records from Cloudflare",
                          "Failed to parse DNS records response",
                          "DNS record not found"}
        /\ \A i \in 1..Len(log) : log[i].op = "sleep" => log[i].ms = 5000

C19_Witness ==
    /\ env.DURATION_SLEEP_MS.set
    /\ Unparsable(env.DURATION_SLEEP_MS.val)
    /\ pc = "loop"
    /\ Len(log) > 0 /\ Last(log).op = "sleep" /\ Last(log).ms = 5000

\* C15: a query that obtains an address while last_ip is empty is followed
\* by an update call; every update call directly follows the query of its
\* iteration, carries the address that query discovered as content, the
\* configured DNS_NAME, type A, ttl 1 and proxied false, and is followed
\* by the sleep, so that an iteration issues one update call at most
C15_UpdateCarriesDiscoveredAddress ==
    [][/\ \A e \in {Last(log')} :
              (Issued(e) /\ IsQuery(e) /\ e.addr # None /\ last_ip = <<>>)
              => pc' = "update" /\ ip_str' = to_string(e.addr)
       /\ \A e \in {Last(log')} :
              (Issued(e) /\ IsUpdate(e)) =>
                  ( /\ IsQuery(Last(log)) /\ Last(log).addr # None
                    /\ e.content = to_string(Last(log).addr)
                    /\ e.name = env.DNS_NAME.val
                    /\ e.type = "A"
                    /\ e.ttl = 1
                    /\ e.proxied = FALSE
                    /\ pc' = "sleep" )]_vars

C15_Witness ==
    /\ Len(log) = 5
    /\ IsQuery(log[3]) /\ log[3].addr # None
    /\ IsUpdate(log[4]) /\ log[4].content = to_string(log[3].addr)
    /\ log[5].op = "sleep"
    /\ pc = "loop"

\* C17: after the two lookups the calls of a run are iterations of one
\* public-IP query, then at most one update call, then one sleep of the
\* configured poll interval; every query is followed by its sleep, directly
\* or after the update, and a sleep lies between any two update calls
C17_IterationOrder ==
    /\ \A i \in 3..Len(log) :
         /\ i = 3 => IsQuery(log[i])
         /\ IsQuery(log[i]) =>
               (i < Len(log) => log[i + 1].op \in {"update", "sleep"})
         /\ IsUpdate(log[i]) =>
               /\ IsQuery(log[i - 1])
               /\ i < Len(log) => log[i + 1].op = "sleep"
         /\ log[i].op = "sleep" =>
               /\ log[i].ms = duration_sleep_ms
               /\ IsQuery(log[i - 1]) \/ IsUpdate(log[i - 1])
               /\ i < Len(log) => IsQuery(log[i + 1])
         /\ log[i].op \in {"public_ip", "update", "sleep"}
    /\ \A i \in 1..Len(log) : \A j \in (i + 1)..Len(log) :
         (IsUpdate(log[i]) /\ IsUpdate(log[j])) =>
             \E k \in (i + 1)..(j - 1) : log[k].op = "sleep"
    /\ (Len(log) > 2 /\ IsQuery(Last(log))) => pc \in {"update", "sleep"}
    /\ (Len(log) > 2 /\ IsUpdate(Last(log))) => pc = "sleep"
    /\ (Len(log) > 2 /\ Last(log).op = "sleep") => pc = "loop"

C17_Witness ==
    /\ Len(log) = 7
    /\ IsQuery(log[3]) /\ log[3].addr = None
    /\ log[4].op = "sleep"
    /\ IsQuery(log[5]) /\ log[5].addr # None
    /\ IsUpdate(log[6])
    /\ log[7].op = "sleep" /\ log[7].ms = 30

\* C18: with CF_API_TOKEN or DNS_NAME missing the process ends with the
\* error naming the variable before it has issued any call
C18_MissingVariableIsFatal ==
    (~env.CF_API_TOKEN.set \/ ~env.DNS_NAME.set) =>
        /\ log = <<>>
        /\ pc \in {"init", "exited"}
        /\ pc = "exited" =>
              error = IF ~env.CF_API_TOKEN.set THEN "CF_API_TOKEN is required"
                      ELSE "DNS_NAME is required"

C18_Witness ==
    /\ pc = "exited"
    /\ env.CF_API_TOKEN.set
    /\ ~env.DNS_NAME.set
    /\ error = "DNS_NAME is required"

\* C16: in a run that reaches the loop, if from some point on every query
\* discovers the address x and every update call is acknowledged with
\* success=true, then from some point on the provider's record and last_ip
\* both hold x and no update call is issued any more
C16_EventualConvergence ==
    \A x \in Addrs :
        ( /\ <>(pc \in Running)
          /\ <>[](IsQuery(Last(log)) => Last(log).addr = x)
          /\ <>[](IsUpdate(Last(log)) => Acked(Last(log).resp)) )
        => <>[]( /\ record_content = to_string(x)
                 /\ last_ip = to_string(x)
                 /\ pc # "update" )

====
